---- MODULE Spec2Model ----
(***************************************************************************)
(* The cache-consistency layer of the euromedia REST backend: the shared   *)
(* in-process LRU cache, the user use cases (fetch, update, delete) and    *)
(* the request handlers of the user and comment controllers that consult   *)
(* and populate the cache.                                                  *)
(*                                                                         *)
(* Strings are sequences of one-character strings, so that the validators  *)
(* and the JavaScript notions "undefined", "empty string" and "truthy" are *)
(* computed, not assumed.  Request handlers are tasks; the awaited         *)
(* persistence calls are their only suspension points.                     *)
(***************************************************************************)
EXTENDS Integers, Sequences, FiniteSets, Bags, TLC

\* Number of fetch requests that may be suspended at a persistence call at once.
NumTasks == 2

\* The maximum entry count N the process-wide LRU cache is configured with at start-up.
Capacity == 2

\* The quantifier {0,61} of the middle of a domain label in the email pattern.
LabelMid == 61

----------------------------------------------------------------------------
\* JavaScript values

\* undefined, as a query field or as a key
Absent == <<"undefined">>
\* the empty string
Empty == << >>
\* null / undefined as an entity value
NULL == [kind |-> "null"]

\* JavaScript truthiness of an optional string
Truthy(s) == s # Absent /\ s # Empty

----------------------------------------------------------------------------
\* Validators

Alnum == {"a", "b", "1", "2", "3"}
HexDigit == {"1", "2", "3"}
LocalPart == Alnum \cup {".", "-", "_", "+"}

\* One dot-separated domain label: [a-zA-Z0-9](?:[a-zA-Z0-9-]{0,61}[a-zA-Z0-9])?
IsLabel(s) ==
  /\ Len(s) >= 1
  /\ s[1] \in Alnum
  /\ Len(s) > 1 =>
       /\ s[Len(s)] \in Alnum
       /\ Len(s) - 2 <= LabelMid
       /\ \A i \in 2..(Len(s) - 1) : s[i] \in Alnum \cup {"-"}

\* label(\.label)*
RECURSIVE IsDomain(_)
IsDomain(s) ==
  LET dots == {i \in 1..Len(s) : s[i] = "."}
  IN IF dots = {}
     THEN IsLabel(s)
     ELSE LET d == CHOOSE i \in dots : \A j \in dots : i <= j
          IN IsLabel(SubSeq(s, 1, d - 1)) /\ IsDomain(SubSeq(s, d + 1, Len(s)))

\* emailRegEx.test(email)
EmailMatches(s) ==
  LET ats == {i \in 1..Len(s) : s[i] = "@"}
  IN /\ Cardinality(ats) = 1
     /\ LET a == CHOOSE i \in ats : TRUE
        IN /\ a >= 2
           /\ \A i \in 1..(a - 1) : s[i] \in LocalPart
           /\ IsDomain(SubSeq(s, a + 1, Len(s)))

\* the test of APIUseCase.validateObjectId: a non-empty string of hex digits
IsObjectId(id) ==
  /\ Len(id) >= 1
  /\ \A i \in 1..Len(id) : id[i] \in HexDigit

----------------------------------------------------------------------------
\* The LRU cache: a sequence of entries, least recently used first

CacheKeys(c) == {c[i].key : i \in 1..Len(c)}

\* cache.has(key): no recency update
CacheHas(c, k) == k \in CacheKeys(c)

\* the value cache.get(key) returns
CacheGet(c, k) ==
  IF CacheHas(c, k)
  THEN LET i == CHOOSE j \in 1..Len(c) : c[j].key = k IN c[i].val
  ELSE NULL

CacheWithout(c, k) == SelectSeq(c, LAMBDA e : e.key # k)

\* the recency update of cache.get(key)
CacheTouch(c, k) ==
  IF CacheHas(c, k)
  THEN Append(CacheWithout(c, k), [key |-> k, val |-> CacheGet(c, k)])
  ELSE c

\* cache.set(key, value): insert as most recent, evict the least recent beyond capacity
CacheSet(c, k, v) ==
  LET put == Append(CacheWithout(c, k), [key |-> k, val |-> v])
  IN IF Len(put) > Capacity THEN Tail(put) ELSE put

----------------------------------------------------------------------------
\* Entities and the persistence service

UserIds == {<<"1">>}
CommentIds == {<<"3">>}

EmailOf(id) == <<"a", "@", "b">>
UserEmails == {EmailOf(id) : id \in UserIds}

User(id, firstname) ==
  [kind |-> "user", id |-> id, email |-> EmailOf(id), firstname |-> firstname]
Comment(id) == [kind |-> "comment", id |-> id]

Firstnames == {<<"a">>, <<"b">>}
UserDocs == {User(id, f) : id \in UserIds, f \in Firstnames}

\* the comment collection of the persistence service (no comment mutation is modelled)
CommentsDb == [id \in CommentIds |-> Comment(id)]

getUserById(d, id) == IF id \in UserIds THEN d[id] ELSE NULL

getUserByEmail(d, email) ==
  LET owners == {id \in UserIds : EmailOf(id) = email /\ d[id] # NULL}
  IN IF owners = {} THEN NULL ELSE d[CHOOSE id \in owners : TRUE]

getAllUsers(d) == [kind |-> "users", items |-> {d[id] : id \in UserIds} \ {NULL}]

getCommentById(id) == IF id \in CommentIds THEN CommentsDb[id] ELSE NULL

getAllComments == [kind |-> "comments", items |-> {CommentsDb[id] : id \in CommentIds}]

\* the document after the nested update has been applied to it
ApplyUpdate(user, updateData) ==
  IF updateData.meta # NULL /\ updateData.meta.firstname # Absent
  THEN [user EXCEPT !.firstname = updateData.meta.firstname]
  ELSE user

\* the id of the document an update or delete addresses, Absent when there is none
TargetOf(d, svc, id, email) ==
  IF svc \in {"updateUserById", "deleteUserById"}
  THEN IF getUserById(d, id) # NULL THEN id ELSE Absent
  ELSE IF svc \in {"updateUserByEmail", "deleteUserByEmail"}
  THEN IF getUserByEmail(d, email) # NULL THEN getUserByEmail(d, email).id ELSE Absent
  ELSE Absent

----------------------------------------------------------------------------
\* The flat patch and its nested form

\* updateSchema.parse(body): the strict schema rejects a body with an unknown key
updateSchemaAccepts(body) == body.extra = Absent

\* mapToUpdateStructure with `&&` for `||` in the test of the location section
mapToUpdateStructureBothLocation(flat) ==
  [meta |->
     IF Truthy(flat.firstname) \/ Truthy(flat.lastname)
     THEN [kind |-> "meta", firstname |-> flat.firstname, lastname |-> flat.lastname]
     ELSE NULL,
   auth |->
     IF Truthy(flat.password)
     THEN [kind |-> "auth", password |-> flat.password]
     ELSE NULL,
   location |->
     IF Truthy(flat.city) /\ Truthy(flat.country)
     THEN [kind |-> "location", city |-> flat.city, country |-> flat.country]
     ELSE NULL]

\* UpdateUserUseCase.mapToUpdateStructure
mapToUpdateStructure(flat) ==
  [meta |->
     IF Truthy(flat.firstname) \/ Truthy(flat.lastname)
     THEN [kind |-> "meta", firstname |-> flat.firstname, lastname |-> flat.lastname]
     ELSE NULL,
   auth |->
     IF Truthy(flat.password)
     THEN [kind |-> "auth", password |-> flat.password]
     ELSE NULL,
   location |->
     IF Truthy(flat.city) \/ Truthy(flat.country)
     THEN [kind |-> "location", city |-> flat.city, country |-> flat.country]
     ELSE NULL]

----------------------------------------------------------------------------
\* Request inputs

Query(id, email) == [id |-> id, email |-> email]

\* the queries of GET /api/users; the last two are invalid: an id that is no object
\* id, and an email that does not match the pattern and is the id of a user
FetchQueryInputs ==
  {Query(Absent, Absent), Query(<<"1">>, Absent), Query(Absent, <<"a", "@", "b">>),
   Query(Empty, <<"a", "@", "b">>), Query(<<"a">>, Absent), Query(Absent, <<"1">>)}

\* the queries of DELETE /api/users
QueryInputs ==
  {Query(Absent, Absent), Query(<<"1">>, Absent), Query(Absent, <<"a", "@", "b">>),
   Query(<<"a">>, Absent)}

\* the requests of DELETE /api/users: every query with a persistence service that
\* answers, and the query by id with one whose call throws
DeleteInputs ==
  {[q |-> q, throws |-> FALSE] : q \in QueryInputs}
    \cup {[q |-> Query(<<"1">>, Absent), throws |-> TRUE]}

\* the ids of GET /api/comments
CommentIdInputs == {Absent, <<"3">>}

Body(firstname, lastname, extra) ==
  [firstname |-> firstname, lastname |-> lastname, password |-> Absent,
   city |-> Absent, country |-> Absent, extra |-> extra]

\* the queries of PATCH /api/users
UpdateQueryInputs ==
  {Query(Absent, Absent), Query(<<"1">>, Absent), Query(Empty, <<"a", "@", "b">>),
   Query(<<"1">>, <<"a", "@", "b">>)}

\* the requests of PATCH /api/users: every query with a patch that renames the user,
\* the query by id with an empty patch and with an empty firstname, the query with
\* no identifier with a patch that has an unknown key, and the query by id with a
\* persistence service whose call throws
UpdateInputs ==
  {[q |-> q, body |-> Body(<<"b">>, Absent, Absent), throws |-> FALSE] :
     q \in UpdateQueryInputs}
    \cup {[q |-> Query(<<"1">>, Absent), body |-> b, throws |-> FALSE] :
            b \in {Body(Absent, Absent, Absent), Body(Empty, Absent, Absent)}}
    \cup {[q |-> Query(Absent, Absent), body |-> Body(<<"b">>, Absent, <<"x">>),
           throws |-> FALSE]}
    \cup {[q |-> Query(<<"1">>, Absent), body |-> Body(<<"b">>, Absent, Absent),
           throws |-> TRUE]}

\* the id and email strings of all requests, and those of them the validators
\* accept (the tests are evaluated once per string)
IdInputs ==
  {q.id : q \in FetchQueryInputs \cup QueryInputs \cup UpdateQueryInputs}
    \cup CommentIdInputs
EmailInputs == {q.email : q \in FetchQueryInputs \cup QueryInputs \cup UpdateQueryInputs}
ValidIds == {id \in IdInputs \ {Absent} : IsObjectId(id)}
ValidEmails == {email \in EmailInputs \ {Absent} : EmailMatches(email)}

\* UserUseCase.validateEmail: TRUE when it returns the email, FALSE when it throws
validateEmail(email) ==
  IF email \in EmailInputs THEN email \in ValidEmails ELSE EmailMatches(email)

\* APIUseCase.validateObjectId: TRUE when it returns the id, FALSE when it throws
validateObjectId(id) ==
  IF id \in IdInputs THEN id \in ValidIds ELSE IsObjectId(id)

----------------------------------------------------------------------------
\* State

VARIABLES
  db,      \* the user collection of the persistence service: id -> document or NULL
  cache,   \* the shared LRU cache
  tasks,   \* the bag of fetch requests suspended at a persistence call
  last,    \* the HTTP response being sent, NoResponse when none is
  stale,   \* per key: the snapshot the cache held under it when an update addressed
           \* by that key last succeeded, while the cache still holds that snapshot
  patchIn, \* a flat patch handed to mapToUpdateStructure, NULL when none is
  patchOut \* the nested update it returned, NULL before the call

vars == <<db, cache, tasks, last, stale, patchIn, patchOut>>

\* the variables of the patch mapping, which no request handler touches
patchVars == <<patchIn, patchOut>>

NoResponse ==
  [op |-> "none", id |-> Absent, email |-> Absent, outcome |-> "none", data |-> NULL,
   status |-> "NONE", svc |-> "none"]

\* a response, with the query it answers and with the persistence operation the
\* request called on the way ("none" when it called none)
Response(op, id, email, outcome, data, status, svc) ==
  [op |-> op, id |-> id, email |-> email, outcome |-> outcome, data |-> data,
   status |-> status, svc |-> svc]

\* the keys the history is kept for: the user ids
StaleKeys == UserIds

\* a recorded snapshot is forgotten once the cache no longer holds it under its key
StaleAfter(st, c) ==
  [k \in StaleKeys |-> IF st[k] # NULL /\ CacheGet(c, k) = st[k] THEN st[k] ELSE NULL]

\* the snapshot an update addressed by key k leaves stale in cache c
StaleOnUpdate(st, c, k, doc) ==
  [x \in StaleKeys |->
     IF x # k THEN st[x]
     ELSE IF CacheHas(c, k) /\ CacheGet(c, k) # doc THEN CacheGet(c, k) ELSE NULL]

Init ==
  /\ db \in [UserIds -> {NULL} \cup UserDocs]
  /\ \A id \in UserIds : db[id] \in {NULL, User(id, <<"a">>)}
  /\ cache = << >>
  /\ tasks = EmptyBag
  /\ last = NoResponse
  /\ stale = [k \in StaleKeys |-> NULL]
  /\ patchIn = NULL
  /\ patchOut = NULL

\* no response is being sent: the next request or continuation may run
Ready == last = NoResponse

\* a fetch request suspends at the persistence call svc
Suspend(op, svc, id, email) ==
  /\ BagCardinality(tasks) < NumTasks
  /\ tasks' = tasks (+) SetToBag({[pc |-> "call", op |-> op, svc |-> svc, id |-> id,
                                   email |-> email, res |-> NULL]})
  /\ UNCHANGED <<db, cache, last, stale>>

\* a request throws before its first persistence call
Reject(op, id, email, outcome) ==
  /\ last' = Response(op, id, email, outcome, NULL, "NONE", "none")
  /\ UNCHANGED <<db, cache, tasks, stale>>

----------------------------------------------------------------------------
\* The persistence service serving a call

\* the value the call resolves to
serviceResult(d, me) ==
  LET target == TargetOf(d, me.svc, me.id, me.email)
  IN CASE me.svc = "getUserById" -> getUserById(d, me.id)
       [] me.svc = "getUserByEmail" -> getUserByEmail(d, me.email)
       [] me.svc = "getAllUsers" -> getAllUsers(d)
       [] me.svc = "getCommentById" -> getCommentById(me.id)
       [] me.svc = "getAllComments" -> getAllComments
       [] me.svc \in {"updateUserById", "updateUserByEmail"} ->
            IF target = Absent THEN NULL ELSE ApplyUpdate(d[target], me.arg)
       [] me.svc \in {"deleteUserById", "deleteUserByEmail"} ->
            IF target = Absent THEN NULL ELSE d[target]
       [] OTHER -> NULL

\* the user collection after the call
serviceEffect(d, me) ==
  LET target == TargetOf(d, me.svc, me.id, me.email)
  IN IF target = Absent THEN d
     ELSE IF me.svc \in {"updateUserById", "updateUserByEmail"}
     THEN [d EXCEPT ![target] = ApplyUpdate(d[target], me.arg)]
     ELSE IF me.svc \in {"deleteUserById", "deleteUserByEmail"}
     THEN [d EXCEPT ![target] = NULL]
     ELSE d

\* the persistence service resolves the fetch a request is suspended at
ServiceReply(me) ==
  /\ Ready
  /\ UNCHANGED patchVars
  /\ me \in BagToSet(tasks)
  /\ me.pc = "call"
  /\ tasks' = (tasks (-) SetToBag({me}))
                (+) SetToBag({[me EXCEPT !.pc = "reply", !.res = serviceResult(db, me)]})
  /\ UNCHANGED <<db, cache, last, stale>>

\* ServiceThrows with a handler that populates the cache in a finally block: the
\* controller stores what it has under its key although the fetch has thrown
ServiceThrowsPopulates(me) ==
  /\ Ready
  /\ UNCHANGED patchVars
  /\ me \in BagToSet(tasks)
  /\ me.pc = "call"
  /\ tasks' = tasks (-) SetToBag({me})
  /\ last' = Response(me.op, me.id, me.email, "UpstreamFailure", NULL, "NONE", me.svc)
  /\ cache' = CacheSet(cache, IF me.id # Absent THEN me.id ELSE me.email, NULL)
  /\ UNCHANGED <<db, stale>>

\* the awaited fetch rejects: the error leaves execute and the controller at the
\* await, and the handler ends with the error
ServiceThrows(me) ==
  /\ Ready
  /\ UNCHANGED patchVars
  /\ me \in BagToSet(tasks)
  /\ me.pc = "call"
  /\ tasks' = tasks (-) SetToBag({me})
  /\ last' = Response(me.op, me.id, me.email, "UpstreamFailure", NULL, "NONE", me.svc)
  /\ UNCHANGED <<db, cache, stale>>

----------------------------------------------------------------------------
\* UserController.getUsers and FetchUserUseCase

\* const cachedKey = req.query.id ?? req.query.email
cachedKeyOf(id, email) == IF id # Absent THEN id ELSE email

\* the key FetchUserUseCase.execute reads the cache under, Absent for getAll
lookupKeyOf(id, email) ==
  IF Truthy(id) THEN id ELSE IF Truthy(email) THEN email ELSE Absent

\* what persistence holds for the identifier execute looks the user up by
lookupInDb(d, id, email) ==
  IF Truthy(id) THEN getUserById(d, id)
  ELSE IF Truthy(email) THEN getUserByEmail(d, email)
  ELSE getAllUsers(d)

\* the controller after execute has returned data: the header and the cache
getUsersRespond(c, id, email, data) ==
  LET cachedKey == cachedKeyOf(id, email)
  IN IF Truthy(cachedKey) /\ CacheHas(c, cachedKey)
     THEN [cache |-> c, status |-> "HIT"]
     ELSE [cache |-> CacheSet(c, cachedKey, data), status |-> "MISS"]

\* GetUsersHit with a lookup that does not count as a use of the entry (cache.peek
\* in place of cache.get): the entry keeps its place in the recency order
GetUsersHitNoTouch(id, email, k) ==
  LET data == CacheGet(cache, k)
      r == getUsersRespond(cache, id, email, data)
  IN /\ cache' = r.cache
     /\ last' = Response("fetchUser", id, email, "ok", data, r.status, "none")
     /\ stale' = StaleAfter(stale, r.cache)
     /\ UNCHANGED <<db, tasks>>

\* execute found the user in the cache: the request completes without suspending
GetUsersHit(id, email, k) ==
  LET data == CacheGet(cache, k)
      r == getUsersRespond(CacheTouch(cache, k), id, email, data)
  IN /\ cache' = r.cache
     /\ last' = Response("fetchUser", id, email, "ok", data, r.status, "none")
     /\ stale' = StaleAfter(stale, r.cache)
     /\ UNCHANGED <<db, tasks>>

\* GetUsers with getById / getByEmail reading the cache before they validate: a
\* query that is invalid is answered from the cache when its raw string is a key
GetUsersValidatesLate(id, email) ==
  /\ Ready
  /\ UNCHANGED patchVars
  /\ IF Truthy(id)
     THEN IF CacheGet(cache, id) # NULL
          THEN GetUsersHit(id, email, id)
          ELSE IF ~validateObjectId(id)
               THEN Reject("fetchUser", id, email, "BadRequest")
               ELSE Suspend("fetchUser", "getUserById", id, email)
     ELSE IF Truthy(email)
     THEN IF CacheGet(cache, email) # NULL
          THEN GetUsersHit(id, email, email)
          ELSE IF ~validateEmail(email)
               THEN Reject("fetchUser", id, email, "BadRequest")
               ELSE Suspend("fetchUser", "getUserByEmail", id, email)
     ELSE Suspend("fetchUser", "getAllUsers", id, email)

\* a request GET /api/users arrives: FetchUserUseCase.execute up to its first await
GetUsers(id, email) ==
  /\ Ready
  /\ UNCHANGED patchVars
  /\ IF Truthy(id)
     THEN IF ~validateObjectId(id)
          THEN Reject("fetchUser", id, email, "BadRequest")
          ELSE IF CacheGet(cache, id) # NULL
               THEN GetUsersHit(id, email, id)
               ELSE Suspend("fetchUser", "getUserById", id, email)
     ELSE IF Truthy(email)
     THEN IF ~validateEmail(email)
          THEN Reject("fetchUser", id, email, "BadRequest")
          ELSE IF CacheGet(cache, email) # NULL
               THEN GetUsersHit(id, email, email)
               ELSE Suspend("fetchUser", "getUserByEmail", id, email)
     ELSE Suspend("fetchUser", "getAllUsers", id, email)

\* GetUsersResume without the null check of getById / getByEmail: a user that was
\* not found is handed to the controller like one that was
GetUsersResumeNoNullCheck(me) ==
  /\ Ready
  /\ UNCHANGED patchVars
  /\ me \in BagToSet(tasks)
  /\ me.pc = "reply"
  /\ me.op = "fetchUser"
  /\ tasks' = tasks (-) SetToBag({me})
  /\ UNCHANGED db
  /\ LET r == getUsersRespond(cache, me.id, me.email, me.res)
     IN /\ cache' = r.cache
        /\ stale' = StaleAfter(stale, r.cache)
        /\ last' = Response("fetchUser", me.id, me.email,
                            IF me.res = NULL THEN "NotFound" ELSE "ok", me.res,
                            r.status, me.svc)

\* the awaited fetch has resolved: the rest of execute, then the controller
GetUsersResume(me) ==
  /\ Ready
  /\ UNCHANGED patchVars
  /\ me \in BagToSet(tasks)
  /\ me.pc = "reply"
  /\ me.op = "fetchUser"
  /\ tasks' = tasks (-) SetToBag({me})
  /\ UNCHANGED db
  /\ IF me.res = NULL
     THEN /\ last' = Response("fetchUser", me.id, me.email, "NotFound", NULL, "NONE",
                              me.svc)
          /\ UNCHANGED <<cache, stale>>
     ELSE LET r == getUsersRespond(cache, me.id, me.email, me.res)
          IN /\ cache' = r.cache
             /\ stale' = StaleAfter(stale, r.cache)
             /\ last' = Response("fetchUser", me.id, me.email, "ok", me.res, r.status,
                                 me.svc)

----------------------------------------------------------------------------
\* CommentController.getComments and FetchCommentsUseCase

\* getCachedKey(req.query): the comment id verbatim, undefined for a list-all query
getCachedKey(id) == id

\* the controller after execute has returned data: the header and the cache
getCommentsRespond(c, id, data) ==
  LET cachedKey == getCachedKey(id)
      isCached == CacheHas(c, cachedKey)
  IN [cache |-> IF Truthy(cachedKey) /\ data # NULL /\ ~isCached
                THEN CacheSet(c, cachedKey, data)
                ELSE c,
      status |-> IF isCached THEN "HIT" ELSE "MISS"]

\* a request GET /api/comments arrives: FetchCommentsUseCase.execute up to its first await
GetComments(id) ==
  /\ Ready
  /\ UNCHANGED patchVars
  /\ IF ~Truthy(getCachedKey(id))
     THEN Suspend("fetchComment", "getAllComments", id, Absent)
     ELSE IF ~validateObjectId(id)
     THEN Reject("fetchComment", id, Absent, "BadRequest")
     ELSE IF CacheGet(cache, id) # NULL
     THEN LET data == CacheGet(cache, id)
              r == getCommentsRespond(CacheTouch(cache, id), id, data)
          IN /\ cache' = r.cache
             /\ last' = Response("fetchComment", id, Absent, "ok", data, r.status,
                                 "none")
             /\ stale' = StaleAfter(stale, r.cache)
             /\ UNCHANGED <<db, tasks>>
     ELSE Suspend("fetchComment", "getCommentById", id, Absent)

\* the awaited fetch has resolved: the rest of execute, then the controller
GetCommentsResume(me) ==
  /\ Ready
  /\ UNCHANGED patchVars
  /\ me \in BagToSet(tasks)
  /\ me.pc = "reply"
  /\ me.op = "fetchComment"
  /\ tasks' = tasks (-) SetToBag({me})
  /\ UNCHANGED db
  /\ IF me.res = NULL
     THEN /\ last' = Response("fetchComment", me.id, Absent, "NotFound", NULL, "NONE",
                              me.svc)
          /\ UNCHANGED <<cache, stale>>
     ELSE LET r == getCommentsRespond(cache, me.id, me.res)
          IN /\ cache' = r.cache
             /\ stale' = StaleAfter(stale, r.cache)
             /\ last' = Response("fetchComment", me.id, Absent, "ok", me.res, r.status,
                                 me.svc)

----------------------------------------------------------------------------
\* UserController.updateUser / deleteUser and the mutation use cases.
\* A mutation handler reads and writes nothing shared but the user collection, at
\* its one updateUser... / deleteUser... call (the save() that follows an update
\* finds nothing modified), so the handler is one step, taken when that call is
\* served.

\* mutationService with the two branches in the other order: the email wins
mutationServiceEmailFirst(prefix, id, email) ==
  IF Truthy(email)
  THEN IF validateEmail(email) THEN prefix \o "UserByEmail" ELSE "none"
  ELSE IF Truthy(id)
  THEN IF validateObjectId(id) THEN prefix \o "UserById" ELSE "none"
  ELSE "none"

\* the persistence call execute makes for a query, "none" when it throws instead
mutationService(prefix, id, email) ==
  IF Truthy(id)
  THEN IF validateObjectId(id) THEN prefix \o "UserById" ELSE "none"
  ELSE IF Truthy(email)
  THEN IF validateEmail(email) THEN prefix \o "UserByEmail" ELSE "none"
  ELSE "none"

\* the call a mutation makes, as the persistence service receives it
Call(svc, id, email, arg) == [svc |-> svc, id |-> id, email |-> email, arg |-> arg]

\* a request PATCH /api/users: UpdateUserUseCase.execute, then the controller;
\* throws says that the persistence call rejects
UpdateUser(id, email, body, throws) ==
  LET svc == mutationService("update", id, email)
      call == Call(svc, id, email, mapToUpdateStructure(body))
      updatedUser == serviceResult(db, call)
  IN /\ Ready
     /\ UNCHANGED patchVars
     /\ UNCHANGED <<cache, tasks>>
     /\ IF ~updateSchemaAccepts(body)
        THEN /\ last' = Response("updateUser", id, email, "ValidationFailure", NULL,
                                 "NONE", "none")
             /\ UNCHANGED <<db, stale>>
        ELSE IF svc = "none"
        THEN /\ last' = Response("updateUser", id, email, "BadRequest", NULL, "NONE",
                                 "none")
             /\ UNCHANGED <<db, stale>>
        ELSE IF throws
        THEN /\ last' = Response("updateUser", id, email, "UpstreamFailure", NULL,
                                 "NONE", svc)
             /\ UNCHANGED <<db, stale>>
        ELSE IF updatedUser = NULL
        THEN /\ last' = Response("updateUser", id, email, "NotFound", NULL, "NONE", svc)
             /\ UNCHANGED <<db, stale>>
        ELSE /\ db' = serviceEffect(db, call)
             /\ last' = Response("updateUser", id, email, "ok", updatedUser, "NONE", svc)
             /\ stale' = StaleOnUpdate(stale, cache, lookupKeyOf(id, email), updatedUser)

\* a request DELETE /api/users: DeleteUserUseCase.execute, then the controller;
\* throws says that the persistence call rejects
DeleteUser(id, email, throws) ==
  LET svc == mutationService("delete", id, email)
      call == Call(svc, id, email, NULL)
      user == serviceResult(db, call)
  IN /\ Ready
     /\ UNCHANGED patchVars
     /\ UNCHANGED <<cache, tasks, stale>>
     /\ IF svc = "none"
        THEN /\ last' = Response("deleteUser", id, email, "BadRequest", NULL, "NONE",
                                 "none")
             /\ UNCHANGED db
        ELSE IF throws
        THEN /\ last' = Response("deleteUser", id, email, "UpstreamFailure", NULL,
                                 "NONE", svc)
             /\ UNCHANGED db
        ELSE IF user = NULL
        THEN /\ last' = Response("deleteUser", id, email, "NotFound", NULL, "NONE", svc)
             /\ UNCHANGED db
        ELSE /\ db' = serviceEffect(db, call)
             /\ last' = Response("deleteUser", id, email, "ok", user, "NONE", svc)

----------------------------------------------------------------------------

\* the response has left: the next request or continuation runs
Sent ==
  /\ last # NoResponse
  /\ last' = NoResponse
  /\ UNCHANGED <<db, cache, tasks, stale, patchVars>>

Next ==
  \/ \E q \in FetchQueryInputs : GetUsers(q.id, q.email)
  \/ \E me \in BagToSet(tasks) : GetUsersResume(me)
  \/ \E id \in CommentIdInputs : GetComments(id)
  \/ \E me \in BagToSet(tasks) : GetCommentsResume(me)
  \/ \E u \in UpdateInputs : UpdateUser(u.q.id, u.q.email, u.body, u.throws)
  \/ \E d \in DeleteInputs : DeleteUser(d.q.id, d.q.email, d.throws)
  \/ \E me \in BagToSet(tasks) : ServiceReply(me)
  \/ \E me \in BagToSet(tasks) : ServiceThrows(me)
  \/ Sent

Spec == Init /\ [][Next]_vars

----------------------------------------------------------------------------
\* The patch mapping on its own: mapToUpdateStructure applied to every flat patch

\* the values of one field of a flat patch: absent, the empty string, a string
PatchValues == {Absent, Empty, <<"b">>}

\* the flat patches the schema accepts
FlatPatches ==
  [firstname : PatchValues, lastname : PatchValues, password : PatchValues,
   city : PatchValues, country : PatchValues, extra : {Absent}]

PatchInit ==
  /\ patchIn \in FlatPatches
  /\ patchOut = NULL
  /\ db = [id \in UserIds |-> NULL]
  /\ cache = << >>
  /\ tasks = EmptyBag
  /\ last = NoResponse
  /\ stale = [k \in StaleKeys |-> NULL]

\* UpdateUserUseCase.execute up to the persistence call: parse the body, map it
MapPatch ==
  /\ patchOut = NULL
  /\ updateSchemaAccepts(patchIn)
  /\ patchOut' = mapToUpdateStructure(patchIn)
  /\ UNCHANGED <<patchIn, db, cache, tasks, last, stale>>

PatchNext == MapPatch

PatchSpec == PatchInit /\ [][PatchNext]_vars

----------------------------------------------------------------------------
\* Properties.  A state with last # NoResponse is the state a response leaves
\* behind: the cache and the user collection are those of that moment.

FetchOps == {"fetchUser", "fetchComment"}
MutationOps == {"updateUser", "deleteUser"}

\* the step sends a response
Responds == last = NoResponse /\ last' # NoResponse

\* C1: once a successful delete addressed by id k has returned, the cache holds no
\* entry under k.
C1_DeleteInvalidates ==
  (last.op = "deleteUser" /\ last.outcome = "ok" /\ Truthy(last.id))
    => ~CacheHas(cache, last.id)

\* C2: once an update addressed by id k has succeeded while the cache held a snapshot
\* of the user under k, no fetch by id k is answered HIT with that pre-update
\* snapshot.
C2_NoStaleHitAfterUpdate ==
  (last.op = "fetchUser" /\ last.outcome = "ok" /\ last.status = "HIT"
     /\ last.id \in StaleKeys)
    => (stale[last.id] = NULL \/ last.data # stale[last.id])

\* C3: a fetch by id or email that is answered without a persistence call is
\* answered NotFound exactly when persistence holds no user for the identifier at
\* that moment (a fetch answered by persistence gives persistence's own answer).
C3_NotFoundIffAbsent ==
  (last.op = "fetchUser" /\ last.outcome \in {"ok", "NotFound"} /\ last.svc = "none")
    => ((last.outcome = "NotFound") <=> (lookupInDb(db, last.id, last.email) = NULL))

\* C4: a fetch that looks the user up under a key the cache holds value V under
\* returns V, reports HIT and calls no persistence fetch.
C4_HitShortCircuit ==
  [][\A q \in FetchQueryInputs :
       LET k == lookupKeyOf(q.id, q.email)
       IN (GetUsers(q.id, q.email) /\ k # Absent /\ CacheHas(cache, k)
             /\ (Truthy(q.id) => validateObjectId(q.id)))
            => last' = Response("fetchUser", q.id, q.email, "ok", CacheGet(cache, k),
                                "HIT", "none")]_vars

\* C5: a successful fetch by id or email that did not find its key in the cache
\* (and so went to persistence) reports MISS and leaves the cache holding the
\* returned entity under that key.
C5_PopulationLaw ==
  (last.op = "fetchUser" /\ last.outcome = "ok" /\ last.svc # "none"
     /\ lookupKeyOf(last.id, last.email) # Absent)
    => /\ last.status = "MISS"
       /\ CacheGet(cache, lookupKeyOf(last.id, last.email)) = last.data

\* no entry holds a null, and an entry under a user identifier holds a user that
\* persistence returned for that identifier
NoPlaceholder(c) ==
  \A i \in 1..Len(c) :
    /\ c[i].val # NULL
    /\ c[i].key \in UserIds \cup UserEmails =>
         /\ c[i].val.kind = "user"
         /\ c[i].key \in {c[i].val.id, c[i].val.email}

\* C6: a fetch by id or email that fails with NotFound adds no entry to the cache
\* (the attempted key is absent afterwards if it was absent before), and no step
\* ever stores a placeholder.
C6_NoNegativeCaching ==
  [][/\ NoPlaceholder(cache')
     /\ (Responds /\ last'.op = "fetchUser" /\ last'.outcome = "NotFound")
          => \A k \in {last'.id, last'.email, lookupKeyOf(last'.id, last'.email)} :
               CacheHas(cache', k) => CacheHas(cache, k)]_vars

\* a fetch by id has just failed with NotFound and the cache holds nothing under the id
C6_Witness ==
  /\ last.op = "fetchUser"
  /\ last.outcome = "NotFound"
  /\ last.id = <<"1">>
  /\ ~CacheHas(cache, <<"1">>)
  /\ cache # << >>

\* C7: a user fetch reports HIT only if it called no persistence fetch, and a user
\* fetch by key that got its value from persistence reports MISS, also when fetches
\* for the same key are suspended at the persistence call at the same time.
C7_TruthfulOrigin ==
  (last.op = "fetchUser" /\ last.outcome = "ok")
    => /\ last.status = "HIT" => last.svc = "none"
       /\ (last.svc # "none" /\ Truthy(cachedKeyOf(last.id, last.email)))
            => last.status = "MISS"

\* C8: a fetch that missed populates the cache when it completes, also when a
\* concurrent miss for the same key has populated it first: the cache then holds the
\* value of the fetch that completed last.
C8_LastWriteWins ==
  [][(Responds /\ last'.op \in FetchOps /\ last'.outcome = "ok" /\ last'.svc # "none"
        /\ Truthy(cachedKeyOf(last'.id, last'.email))
        /\ CacheHas(cache, cachedKeyOf(last'.id, last'.email)))
       => CacheGet(cache', cachedKeyOf(last'.id, last'.email)) = last'.data]_vars

\* C9: a list-all fetch of users or comments leaves the cache as it was and is not
\* reported as a HIT.
C9_ListAllBypassesCache ==
  [][(Responds /\ last'.op \in FetchOps /\ last'.outcome = "ok"
        /\ last'.id = Absent /\ last'.email = Absent)
       => (cache' = cache /\ last'.status # "HIT")]_vars

\* the identifiers a query carries
Carried(id, email) == {x \in {"id", "email"} : IF x = "id" THEN id # Absent ELSE email # Absent}

ById == {"updateUserById", "deleteUserById"}
ByEmail == {"updateUserByEmail", "deleteUserByEmail"}

C11_FailuresLeaveCache ==
  [][(Responds
        /\ \/ last'.outcome = "UpstreamFailure"
           \/ last'.op \in MutationOps /\ last'.outcome = "NotFound")
       => cache' = cache]_vars

\* a user fetch has ended with the error of its persistence call while the cache
\* holds an entry
C11_Witness ==
  /\ last.op = "fetchUser"
  /\ last.outcome = "UpstreamFailure"
  /\ last.svc = "getUserById"
  /\ cache # << >>

\* the query selects a lookup by id with an id that is no object id, or a lookup by
\* email with an email that does not match the pattern
InvalidQuery(id, email) ==
  IF Truthy(id) THEN ~validateObjectId(id) ELSE Truthy(email) /\ ~validateEmail(email)

C13_KeyConsistency ==
  (last.op = "fetchUser" /\ last.outcome = "ok" /\ Carried(last.id, last.email) # {})
    => /\ cachedKeyOf(last.id, last.email) = lookupKeyOf(last.id, last.email)
       /\ cachedKeyOf(last.id, last.email) = IF last.id # Absent THEN last.id ELSE last.email

\* the keys of a cache, least recently used first
KeyOrder(c) == [i \in 1..Len(c) |-> c[i].key]

\* a recency order after key k has been read or written
UsedLast(order, k) == Append(SelectSeq(order, LAMBDA x : x # k), k)

SectionsCarryPatch ==
  /\ patchOut.meta # NULL =>
       /\ patchOut.meta.firstname = patchIn.firstname
       /\ patchOut.meta.lastname = patchIn.lastname
  /\ patchOut.auth # NULL => patchOut.auth.password = patchIn.password
  /\ patchOut.location # NULL =>
       /\ patchOut.location.city = patchIn.city
       /\ patchOut.location.country = patchIn.country

\* C15 as stated: the nested update has the section meta iff the patch provides
\* firstname or lastname (as a string, empty or not), auth iff it provides password,
\* location iff it provides city or country, and a section carries the provided
\* fields only.
C15_SectionIffProvided ==
  patchOut # NULL =>
    /\ patchOut.meta # NULL <=> (patchIn.firstname # Absent \/ patchIn.lastname # Absent)
    /\ patchOut.auth # NULL <=> patchIn.password # Absent
    /\ patchOut.location # NULL <=> (patchIn.city # Absent \/ patchIn.country # Absent)
    /\ SectionsCarryPatch

\* C15 as amended: the nested update has the section meta iff firstname or lastname
\* is a non-empty string, auth iff password is one, location iff city or country is
\* one; a section that is there carries each of its fields with the value of the
\* patch: absent when the patch has none, the empty string when the patch has it.
C15_SectionIffNonEmpty ==
  patchOut # NULL =>
    /\ patchOut.meta # NULL <=> (Truthy(patchIn.firstname) \/ Truthy(patchIn.lastname))
    /\ patchOut.auth # NULL <=> Truthy(patchIn.password)
    /\ patchOut.location # NULL <=> (Truthy(patchIn.city) \/ Truthy(patchIn.country))
    /\ SectionsCarryPatch

\* a patch with a city and no country, an empty firstname and a lastname has been
\* mapped: it has the sections location and meta, the latter with the empty firstname
C15_Witness ==
  /\ patchOut # NULL
  /\ patchIn.city = <<"b">>
  /\ patchIn.country = Absent
  /\ patchIn.firstname = Empty
  /\ patchOut.location # NULL
  /\ patchOut.meta # NULL
  /\ patchOut.meta.firstname = Empty

\* C16: every cache entry the user fetch path has written (every entry that is not
\* under a comment id) has a non-empty identifier as its key and a single user
\* whose id or email is that key as its value: no entry under undefined or under
\* the empty string, no collection as a value.
C16_WellFormedEntries ==
  \A i \in 1..Len(cache) :
    cache[i].key \notin CommentIds =>
      /\ Truthy(cache[i].key)
      /\ cache[i].val.kind = "user"
      /\ cache[i].key \in {cache[i].val.id, cache[i].val.email}

====
